---- MODULE Spec2Model ----
(***************************************************************************)
(* Conversions between field scalars and arrow's 256-bit signed integer:   *)
(* crates/proof-of-sql/src/base/arrow/scalar_and_i256_conversions.rs.      *)
(*                                                                         *)
(* Every fixed-width integer is the little-endian sequence of its 16-bit   *)
(* digits: a u64 has 4 digits, a u128 or i128 has 8, an i256 has 16.       *)
(* Signed types are kept as their two's-complement bit pattern, so every   *)
(* width of the program is kept exactly.                                   *)
(***************************************************************************)
EXTENDS Integers, Sequences, FiniteSets, TLC

----------------------------------------------------------------------------
(* Fixed-width arithmetic on digit sequences. *)

Base == 2^16

U64Digits == 4

U128Digits == 8

I256Digits == 16

Zeros(n) == [i \in 1..n |-> 0]

Ones(n) == [i \in 1..n |-> Base - 1]

RECURSIVE AddFrom(_, _, _, _)
AddFrom(a, b, c, i) ==
  IF i > Len(a) THEN <<>>
  ELSE LET t == a[i] + b[i] + c
       IN  <<t % Base>> \o AddFrom(a, b, t \div Base, i + 1)

\* a + b + c modulo 2^(16 * Len(a)), for a carry-in c of 0 or 1
WrappingAdd(a, b, c) == AddFrom(a, b, c, 1)

BitNot(a) == [i \in 1..Len(a) |-> Base - 1 - a[i]]

\* a - b modulo 2^(16 * Len(a))
WrappingSub(a, b) == WrappingAdd(a, BitNot(b), 1)

RECURSIVE LessFrom(_, _, _)
LessFrom(a, b, i) ==
  IF i = 0 THEN FALSE
  ELSE IF a[i] < b[i] THEN TRUE
  ELSE IF a[i] > b[i] THEN FALSE
  ELSE LessFrom(a, b, i - 1)

\* unsigned comparison of two digit sequences of the same length
ULess(a, b) == LessFrom(a, b, Len(a))

ULeq(a, b) == ~ULess(b, a)

SignBit(a) == a[Len(a)] >= Base \div 2

\* signed (two's-complement) comparison of two sequences of the same length
SLess(a, b) ==
  IF SignBit(a) # SignBit(b) THEN SignBit(a) ELSE ULess(a, b)

RECURSIVE MulSmallFrom(_, _, _, _)
MulSmallFrom(a, m, c, i) ==
  IF i > Len(a) THEN <<>>
  ELSE LET t == a[i] * m + c
       IN  <<t % Base>> \o MulSmallFrom(a, m, t \div Base, i + 1)

\* a * m + c modulo 2^(16 * Len(a)), for small m and c
MulSmallAdd(a, m, c) == MulSmallFrom(a, m, c, 1)

RECURSIVE DecimalFrom(_, _, _)
DecimalFrom(groups, n, i) ==
  IF i = 0 THEN Zeros(n)
  ELSE MulSmallAdd(DecimalFrom(groups, n, i - 1), 1000, groups[i])

\* the n-digit value of a decimal literal written in groups of three
\* decimal digits, as Rust writes 12_345_678
Decimal(groups, n) == DecimalFrom(groups, n, Len(groups))

\* a >> 1, unsigned
Half(a) ==
  [i \in 1..Len(a) |->
     (a[i] \div 2) + (IF i < Len(a) THEN (a[i + 1] % 2) * (Base \div 2) ELSE 0)]

\* a small natural number as an n-digit value
Small(k, n) == MulSmallAdd(Zeros(n), 0, k)

RECURSIVE BitOrInt(_, _)
BitOrInt(x, y) ==
  IF x = 0 THEN y
  ELSE IF y = 0 THEN x
  ELSE (IF x % 2 = 1 \/ y % 2 = 1 THEN 1 ELSE 0)
       + 2 * BitOrInt(x \div 2, y \div 2)

\* a | b
BitOr(a, b) == [i \in 1..Len(a) |-> BitOrInt(a[i], b[i])]

\* a << 64 at the width of a
Shl64(a) == Zeros(U64Digits) \o SubSeq(a, 1, Len(a) - U64Digits)

\* a >> 64 of an unsigned a
LShr64(a) == SubSeq(a, U64Digits + 1, Len(a)) \o Zeros(U64Digits)

\* a >> 64 of a signed a (the sign bit is shifted in)
AShr64(a) ==
  SubSeq(a, U64Digits + 1, Len(a))
    \o (IF SignBit(a) THEN Ones(U64Digits) ELSE Zeros(U64Digits))

\* x as u64: truncation to the low 64 bits
AsU64(a) == SubSeq(a, 1, U64Digits)

\* u128::from(x) / i128::from(x) of a u64 x: zero extension
Widen128(x) == x \o Zeros(U128Digits - U64Digits)

----------------------------------------------------------------------------
(* arrow::datatypes::i256: a low u128 half and a high i128 half. *)

\* i256::from_parts(low, high)
from_parts(low, high) == low \o high

\* i256::to_parts(self).0
to_parts_low(v) == SubSeq(v, 1, U128Digits)

\* i256::to_parts(self).1
to_parts_high(v) == SubSeq(v, U128Digits + 1, I256Digits)

\* i256::wrapping_neg
wrapping_neg(v) == WrappingAdd(BitNot(v), Zeros(Len(v)), 1)

\* i256::is_negative
is_negative(v) == SignBit(to_parts_high(v))

\* i256's Ord: the signed high halves decide, then the unsigned low halves
i256_lt(a, b) ==
  IF to_parts_high(a) # to_parts_high(b)
  THEN SLess(to_parts_high(a), to_parts_high(b))
  ELSE ULess(to_parts_low(a), to_parts_low(b))

i256_gt(a, b) == i256_lt(b, a)

\* i256::MIN and i256::MAX
I256_MIN == from_parts(Zeros(U128Digits), Zeros(U128Digits - 1) \o <<Base \div 2>>)

I256_MAX == from_parts(Ones(U128Digits), Ones(U128Digits - 1) \o <<Base \div 2 - 1>>)

\* The builds of the crate: with debug assertions the operators of i256
\* panic on overflow, without them they wrap.
Builds == {"debug", "release"}

\* `-x` of an i256 x (impl Neg for i256) overflows for i256::MIN alone: the
\* debug build panics there, the release build wraps
i256_neg_panics(build, v) == v = I256_MIN /\ build = "debug"

i256_neg(v) == wrapping_neg(v)

\* a u128 literal, and a negative i128 literal -m
U128Lit(groups) == Decimal(groups, U128Digits)

I128NegLit(groups) == WrappingSub(Zeros(U128Digits), Decimal(groups, U128Digits))

I128Lit(groups) == Decimal(groups, U128Digits)

\* MIN_SUPPORTED_I256 with the high half negated without the borrow of the
\* low half
MIN_SUPPORTED_I256_no_borrow ==
  from_parts(
    U128Lit(<<326, 411, 208, 032, 252, 286, 695, 448, 638, 536, 326, 387, 210>>),
    I128NegLit(<<10, 633, 823, 966, 279, 326, 983, 230, 456, 482, 242, 756, 608>>))

MIN_SUPPORTED_I256 ==
  from_parts(
    U128Lit(<<326, 411, 208, 032, 252, 286, 695, 448, 638, 536, 326, 387, 210>>),
    I128NegLit(<<10, 633, 823, 966, 279, 326, 983, 230, 456, 482, 242, 756, 609>>))

MAX_SUPPORTED_I256 ==
  from_parts(
    U128Lit(<<13, 871, 158, 888, 686, 176, 767, 925, 968, 895, 441, 824, 246>>),
    I128Lit(<<10, 633, 823, 966, 279, 326, 983, 230, 456, 482, 242, 756, 608>>))

----------------------------------------------------------------------------
(* The Scalar trait (crate::base::scalar): a prime field of order p whose   *)
(* elements are kept as their canonical residue in [0, p), four            *)
(* little-endian 64-bit words.                                             *)

\* The scalar types the generic conversions are instantiated with:
\* TestScalar has the order of the curve25519 scalar field, DoryScalar the
\* order of the BLS12-381 scalar field.
ScalarTypes == {"TestScalar", "DoryScalar"}

\* the order of the curve25519 scalar field, 2^252 + 27742...8493
TestScalarOrder ==
  Decimal(<<7, 237, 005, 577, 332, 262, 213, 973, 186, 563, 042, 994, 240,
            857, 116, 359, 379, 907, 606, 001, 950, 938, 285, 454, 250,
            989>>, I256Digits)

\* the order of the BLS12-381 scalar field
DoryScalarOrder ==
  Decimal(<<52, 435, 875, 175, 126, 190, 479, 447, 740, 508, 185, 965, 837,
            690, 552, 500, 527, 637, 822, 603, 658, 699, 938, 581, 184,
            513>>, I256Digits)

\* the order p of the field of S
Order(S) == IF S = "TestScalar" THEN TestScalarOrder ELSE DoryScalarOrder

ScalarZero == Zeros(I256Digits)

ScalarOne == Small(1, I256Digits)

\* S::MAX_SIGNED = (p - 1) / 2
MAX_SIGNED(S) == Half(WrappingSub(Order(S), ScalarOne))

\* a > b of two scalars: the order of the canonical residues
ScalarGt(a, b) == ULess(b, a)

\* -a, the additive inverse
ScalarNeg(S, a) == IF a = ScalarZero THEN a ELSE WrappingSub(Order(S), a)

\* a + b in the field
ScalarAdd(S, a, b) ==
  LET t == WrappingAdd(a, b, 0)
  IN  IF ULess(t, Order(S)) THEN t ELSE WrappingSub(t, Order(S))

\* Into<[u64; 4]>: the limb export
ScalarIntoLimbs(a) ==
  [i \in 1..4 |-> SubSeq(a, U64Digits * (i - 1) + 1, U64Digits * i)]

RECURSIVE Reduce(_, _)
Reduce(S, a) == IF ULess(a, Order(S)) THEN a ELSE Reduce(S, WrappingSub(a, Order(S)))

\* From<[u64; 4]>: the limb import; it expects a magnitude below the order
ScalarFromLimbs(S, limbs) ==
  Reduce(S, limbs[1] \o limbs[2] \o limbs[3] \o limbs[4])

----------------------------------------------------------------------------
(* The conversions. Each returns the frame of the call: its locals and,    *)
(* in ret, what it returns.                                                *)

None == <<>>

Some(x) == <<x>>

\* convert_scalar_to_i256 returning the magnitude for a negative scalar too
convert_scalar_to_i256_no_neg(S, val) ==
  LET neg == ScalarGt(val, MAX_SIGNED(S))
      abs_scalar == IF neg THEN ScalarNeg(S, val) ELSE val
      limbs == ScalarIntoLimbs(abs_scalar)
      low == BitOr(Widen128(limbs[1]), Shl64(Widen128(limbs[2])))
      high == BitOr(Widen128(limbs[3]), Shl64(Widen128(limbs[4])))
      abs_i256 == from_parts(low, high)
  IN  [is_negative |-> neg,
       abs_scalar |-> abs_scalar,
       limbs |-> limbs,
       abs_i256 |-> abs_i256,
       ret |-> abs_i256]

\* convert_scalar_to_i256 taking val >= MAX_SIGNED for negative
convert_scalar_to_i256_ge(S, val) ==
  LET neg == ~ULess(val, MAX_SIGNED(S))
      abs_scalar == IF neg THEN ScalarNeg(S, val) ELSE val
      limbs == ScalarIntoLimbs(abs_scalar)
      low == BitOr(Widen128(limbs[1]), Shl64(Widen128(limbs[2])))
      high == BitOr(Widen128(limbs[3]), Shl64(Widen128(limbs[4])))
      abs_i256 == from_parts(low, high)
  IN  [is_negative |-> neg,
       abs_scalar |-> abs_scalar,
       limbs |-> limbs,
       abs_i256 |-> abs_i256,
       ret |-> IF neg THEN wrapping_neg(abs_i256) ELSE abs_i256]

convert_scalar_to_i256(S, val) ==
  LET neg == ScalarGt(val, MAX_SIGNED(S))
      abs_scalar == IF neg THEN ScalarNeg(S, val) ELSE val
      limbs == ScalarIntoLimbs(abs_scalar)
      low == BitOr(Widen128(limbs[1]), Shl64(Widen128(limbs[2])))
      high == BitOr(Widen128(limbs[3]), Shl64(Widen128(limbs[4])))
      abs_i256 == from_parts(low, high)
  IN  [is_negative |-> neg,
       abs_scalar |-> abs_scalar,
       limbs |-> limbs,
       abs_i256 |-> abs_i256,
       ret |-> IF neg THEN wrapping_neg(abs_i256) ELSE abs_i256]

\* convert_i256_to_scalar checking the upper bound alone
convert_i256_to_scalar_no_lower_bound(S, build, value) ==
  IF i256_gt(value, MAX_SUPPORTED_I256)
  THEN [outcome |-> "returned", abs_value |-> None, limbs |-> None, ret |-> None]
  ELSE LET abs_value == IF is_negative(value) THEN i256_neg(value) ELSE value
       IN  IF is_negative(value) /\ i256_neg_panics(build, value)
           THEN [outcome |-> "panicked", abs_value |-> None, limbs |-> None,
                 ret |-> None]
           ELSE LET low == to_parts_low(abs_value)
                    high == to_parts_high(abs_value)
                    limbs == <<AsU64(low), AsU64(LShr64(low)),
                               AsU64(high), AsU64(AShr64(high))>>
                    scalar == ScalarFromLimbs(S, limbs)
                IN  [outcome |-> "returned",
                     abs_value |-> Some(abs_value),
                     limbs |-> limbs,
                     ret |-> Some(IF is_negative(value) THEN ScalarNeg(S, scalar)
                                  ELSE scalar)]

\* convert_i256_to_scalar taking the limbs of the value, not of its absolute value
convert_i256_to_scalar_no_abs(S, build, value) ==
  IF i256_lt(value, MIN_SUPPORTED_I256) \/ i256_gt(value, MAX_SUPPORTED_I256)
  THEN [outcome |-> "returned", abs_value |-> None, limbs |-> None, ret |-> None]
  ELSE LET abs_value == value
       IN  IF is_negative(value) /\ i256_neg_panics(build, value)
           THEN [outcome |-> "panicked", abs_value |-> None, limbs |-> None,
                 ret |-> None]
           ELSE LET low == to_parts_low(abs_value)
                    high == to_parts_high(abs_value)
                    limbs == <<AsU64(low), AsU64(LShr64(low)),
                               AsU64(high), AsU64(AShr64(high))>>
                    scalar == ScalarFromLimbs(S, limbs)
                IN  [outcome |-> "returned",
                     abs_value |-> Some(abs_value),
                     limbs |-> limbs,
                     ret |-> Some(IF is_negative(value) THEN ScalarNeg(S, scalar)
                                  ELSE scalar)]

\* convert_i256_to_scalar without the sign adjustment of the scalar
convert_i256_to_scalar_no_sign(S, build, value) ==
  IF i256_lt(value, MIN_SUPPORTED_I256) \/ i256_gt(value, MAX_SUPPORTED_I256)
  THEN [outcome |-> "returned", abs_value |-> None, limbs |-> None, ret |-> None]
  ELSE LET abs_value == IF is_negative(value) THEN i256_neg(value) ELSE value
       IN  IF is_negative(value) /\ i256_neg_panics(build, value)
           THEN [outcome |-> "panicked", abs_value |-> None, limbs |-> None,
                 ret |-> None]
           ELSE LET low == to_parts_low(abs_value)
                    high == to_parts_high(abs_value)
                    limbs == <<AsU64(low), AsU64(LShr64(low)),
                               AsU64(high), AsU64(AShr64(high))>>
                    scalar == ScalarFromLimbs(S, limbs)
                IN  [outcome |-> "returned",
                     abs_value |-> Some(abs_value),
                     limbs |-> limbs,
                     ret |-> Some(scalar)]

convert_i256_to_scalar(S, build, value) ==
  IF i256_lt(value, MIN_SUPPORTED_I256) \/ i256_gt(value, MAX_SUPPORTED_I256)
  THEN [outcome |-> "returned", abs_value |-> None, limbs |-> None, ret |-> None]
  ELSE LET abs_value == IF is_negative(value) THEN i256_neg(value) ELSE value
       IN  IF is_negative(value) /\ i256_neg_panics(build, value)
           THEN [outcome |-> "panicked", abs_value |-> None, limbs |-> None,
                 ret |-> None]
           ELSE LET low == to_parts_low(abs_value)
                    high == to_parts_high(abs_value)
                    limbs == <<AsU64(low), AsU64(LShr64(low)),
                               AsU64(high), AsU64(AShr64(high))>>
                    scalar == ScalarFromLimbs(S, limbs)
                IN  [outcome |-> "returned",
                     abs_value |-> Some(abs_value),
                     limbs |-> limbs,
                     ret |-> Some(IF is_negative(value) THEN ScalarNeg(S, scalar)
                                  ELSE scalar)]

\* From<i256> with the fourth word taken as `high as u64`
I256_from_no_shift(value) ==
  LET low == to_parts_low(value)
      high == to_parts_high(value)
  IN  <<AsU64(low), AsU64(LShr64(low)), AsU64(high), AsU64(high)>>

\* impl From<i256> for math::i256::I256: the four words handed to I256::new
I256_from(value) ==
  LET low == to_parts_low(value)
      high == to_parts_high(value)
  IN  <<AsU64(low), AsU64(LShr64(low)), AsU64(high), AsU64(AShr64(high))>>

----------------------------------------------------------------------------
(* The inputs the calls are made with. *)

MaxDelta == 2

\* 2^(64 * k) as a 256-bit value
LimbBoundary(k) ==
  [i \in 1..I256Digits |-> IF i = U64Digits * k + 1 THEN 1 ELSE 0]

\* every value within MaxDelta of one of the bases, modulo 2^256
Around(bases) ==
  UNION {{WrappingAdd(b, Small(d, I256Digits), 0),
          WrappingSub(b, Small(d, I256Digits))} : b \in bases, d \in 0..MaxDelta}

U64Patterns ==
  {Zeros(U64Digits), Small(1, U64Digits),
   Ones(U64Digits - 1) \o <<Base \div 2 - 1>>,
   Zeros(U64Digits - 1) \o <<Base \div 2>>,
   Ones(U64Digits)}

\* the 256-bit values whose four words are each 0, 1, 2^63 - 1, 2^63 or 2^64 - 1
LimbPatterns ==
  {a \o b \o c \o d : a \in U64Patterns, b \in U64Patterns,
                      c \in U64Patterns, d \in U64Patterns}

NumSamples == 40

\* digit i of the k-th sample: a fixed scrambling of k and i
SampleDigit(k, i) == ((k * 7919 + i * 104729) * 31 + k * k * i * 13) % Base

\* 256-bit samples with no particular shape, as test_i256_testscalar_random
\* draws them; top keeps the most significant digit below it
Samples(top) ==
  {[i \in 1..I256Digits |->
      IF i = I256Digits THEN SampleDigit(k, i) % top ELSE SampleDigit(k, i)] :
   k \in 1..NumSamples}

Bases(S) ==
  {Zeros(I256Digits), Small(42, I256Digits), Small(12345, I256Digits),
   LimbBoundary(1), LimbBoundary(2), LimbBoundary(3),
   MAX_SUPPORTED_I256, MAX_SIGNED(S), I256_MAX}

\* the scalars of S the conversions are called with
ScalarInputs(S) ==
  LET pos == {x \in Around(Bases(S)) \cup LimbPatterns
                       \cup Samples(Base \div 16) \cup Samples(Base \div 4) :
                ULess(x, Order(S))}
  IN  pos \cup {ScalarNeg(S, x) : x \in pos}

\* the i256 values the conversions are called with
I256Inputs ==
  LET pos == Around(UNION {Bases(S) : S \in ScalarTypes}
                      \cup {from_parts(Small(40, U128Digits), Small(20, U128Digits)),
                            from_parts(Small(20, U128Digits),
                                       WrappingSub(Zeros(U128Digits),
                                                   Small(20, U128Digits)))})
               \cup LimbPatterns \cup Samples(Base \div 32) \cup Samples(Base)
  IN  pos \cup {wrapping_neg(x) : x \in pos}

----------------------------------------------------------------------------
(* The calls. pc names the calls made so far; a round trip is a call of    *)
(* one conversion on what the other returned.                              *)

VARIABLES pc, S, build, val, value, s2i, i2s, posql

vars == <<pc, S, build, val, value, s2i, i2s, posql>>

Init ==
  /\ pc = "start"
  /\ S = "TestScalar"
  /\ build = "debug"
  /\ val = None
  /\ value = None
  /\ s2i = None
  /\ i2s = None
  /\ posql = None

\* convert_scalar_to_i256::<T>(&v)
CallScalarToI256(T, v) ==
  /\ pc = "start"
  /\ pc' = "scalar_to_i256"
  /\ S' = T
  /\ val' = v
  /\ s2i' = convert_scalar_to_i256(T, v)
  /\ UNCHANGED <<build, value, i2s, posql>>

\* convert_i256_to_scalar::<S>(&convert_scalar_to_i256(&val))
CallI256ToScalarBack(b) ==
  /\ pc = "scalar_to_i256"
  /\ pc' = "scalar_to_i256_to_scalar"
  /\ build' = b
  /\ value' = s2i.ret
  /\ i2s' = convert_i256_to_scalar(S, b, s2i.ret)
  /\ UNCHANGED <<S, val, s2i, posql>>

\* convert_i256_to_scalar::<T>(&v)
CallI256ToScalar(T, b, v) ==
  /\ pc = "start"
  /\ pc' = "i256_to_scalar"
  /\ S' = T
  /\ build' = b
  /\ value' = v
  /\ i2s' = convert_i256_to_scalar(T, b, v)
  /\ UNCHANGED <<val, s2i, posql>>

\* convert_scalar_to_i256(&convert_i256_to_scalar::<S>(&value).unwrap())
CallScalarToI256Back ==
  /\ pc = "i256_to_scalar"
  /\ i2s.outcome = "returned"
  /\ i2s.ret # None
  /\ pc' = "i256_to_scalar_to_i256"
  /\ val' = i2s.ret[1]
  /\ s2i' = convert_scalar_to_i256(S, i2s.ret[1])
  /\ UNCHANGED <<S, build, value, i2s, posql>>

\* math::i256::I256::from(v)
CallFrom(v) ==
  /\ pc = "start"
  /\ pc' = "from"
  /\ value' = v
  /\ posql' = I256_from(v)
  /\ UNCHANGED <<S, build, val, s2i, i2s>>

Next ==
  \/ \E T \in ScalarTypes : \E v \in ScalarInputs(T) : CallScalarToI256(T, v)
  \/ \E b \in Builds : CallI256ToScalarBack(b)
  \/ \E T \in ScalarTypes, b \in Builds : \E v \in I256Inputs : CallI256ToScalar(T, b, v)
  \/ CallScalarToI256Back
  \/ \E v \in I256Inputs : CallFrom(v)

Spec == Init /\ [][Next]_vars

----------------------------------------------------------------------------
(* The properties. *)

S2ICalled == pc \in {"scalar_to_i256", "scalar_to_i256_to_scalar", "i256_to_scalar_to_i256"}

I2SCalled == pc \in {"i256_to_scalar", "scalar_to_i256_to_scalar", "i256_to_scalar_to_i256"}

\* MIN_SUPPORTED <= v <= MAX_SUPPORTED, as 256-bit signed integers
InRange(v) == ~SLess(v, MIN_SUPPORTED_I256) /\ ~SLess(MAX_SUPPORTED_I256, v)

I256Zero == Zeros(I256Digits)

I256One == Small(1, I256Digits)

\* C1: total round trip: converting any scalar of the instantiated field to
\* an i256 and back returns Some of the same scalar.
C1_TotalRoundTrip ==
  pc = "scalar_to_i256_to_scalar" =>
    i2s.outcome = "returned" /\ i2s.ret = Some(val)

\* C2: bounded round trip: every i256 in [MIN_SUPPORTED, MAX_SUPPORTED]
\* converts to Some scalar, and that scalar converts back to the same i256.
C2_BoundedRoundTrip ==
  /\ pc = "i256_to_scalar" /\ InRange(value) =>
       i2s.outcome = "returned" /\ i2s.ret # None
  /\ pc = "i256_to_scalar_to_i256" => val = i2s.ret[1] /\ s2i.ret = value

C2_Witness ==
  /\ pc = "i256_to_scalar_to_i256"
  /\ value = wrapping_neg(WrappingSub(LimbBoundary(3), I256One))
  /\ s2i.ret = value

\* C3: convert_i256_to_scalar returns None exactly for the values below
\* MIN_SUPPORTED or above MAX_SUPPORTED, and it returns (it never panics);
\* MAX_SUPPORTED + 1, MIN_SUPPORTED - 1, i256::MAX and i256::MIN give None.
C3_OutOfRangeRejection ==
  I2SCalled =>
    /\ i2s.outcome = "returned"
    /\ i2s.ret = None <=> ~InRange(value)
    /\ value \in {WrappingAdd(MAX_SUPPORTED_I256, I256One, 0),
                  WrappingSub(MIN_SUPPORTED_I256, I256One),
                  I256_MAX, I256_MIN} => i2s.ret = None

C3_Witness ==
  pc = "i256_to_scalar" /\ build = "debug" /\ value = I256_MIN /\ i2s.ret = None

\* C4: convert_scalar_to_i256 returns the signed interpretation: the
\* residue s itself when s <= MAX_SIGNED, and s - p, a negative i256, when
\* s > MAX_SIGNED; 0 gives 0, 12345 gives 12345, -12345 gives -12345.
C4_SignedInterpretation ==
  S2ICalled =>
    /\ ULeq(val, MAX_SIGNED(S)) => s2i.ret = val /\ ~is_negative(s2i.ret)
    /\ ULess(MAX_SIGNED(S), val) =>
         s2i.ret = WrappingSub(val, Order(S)) /\ is_negative(s2i.ret)
    /\ val = ScalarZero => s2i.ret = I256Zero
    /\ val = Small(12345, I256Digits) => s2i.ret = Small(12345, I256Digits)
    /\ val = ScalarNeg(S, Small(12345, I256Digits)) =>
         WrappingAdd(s2i.ret, Small(12345, I256Digits), 0) = I256Zero

C4_Witness ==
  /\ pc = "scalar_to_i256"
  /\ val = ScalarNeg(S, Small(12345, I256Digits))
  /\ s2i.ret = wrapping_neg(Small(12345, I256Digits))

\* the canonical residue of the 256-bit signed integer v modulo the order
\* of S, for |v| below the order
Residue(T, v) == IF SignBit(v) THEN WrappingAdd(v, Order(T), 0) ELSE v

C6_UpperBoundFromField ==
  S2ICalled /\ val = MAX_SIGNED(S) => s2i.ret = MAX_SUPPORTED_I256

\* C7: MIN_SUPPORTED = -MAX_SUPPORTED exactly: their sum is 0 without
\* wrap-around, MIN_SUPPORTED is above i256::MIN, and so the supported
\* window holds the negation of each of its values.
C7_Symmetry ==
  /\ WrappingAdd(MIN_SUPPORTED_I256, MAX_SUPPORTED_I256, 0) = I256Zero
  /\ is_negative(MIN_SUPPORTED_I256) /\ ~is_negative(MAX_SUPPORTED_I256)
  /\ SLess(I256_MIN, MIN_SUPPORTED_I256)
  /\ I2SCalled /\ value # I256_MIN =>
       (i2s.ret = None <=> convert_i256_to_scalar(S, build, wrapping_neg(value)).ret = None)

C7_Witness ==
  /\ pc = "i256_to_scalar"
  /\ value = MIN_SUPPORTED_I256
  /\ i2s.ret # None
  /\ convert_i256_to_scalar(S, build, MAX_SUPPORTED_I256).ret # None

U64Max == Ones(U64Digits)

\* C8: From<i256> for I256 succeeds on every i256 and returns four 64-bit
\* words w0..w3 with w0 + w1*2^64 + w2*2^128 + w3*2^192 = V mod 2^256.
C8_NormalizeBitLayout ==
  pc = "from" =>
    /\ Len(posql) = 4
    /\ \A i \in 1..4 :
         Len(posql[i]) = U64Digits /\ \A j \in 1..U64Digits : posql[i][j] \in 0..(Base - 1)
    /\ posql[1] \o posql[2] \o posql[3] \o posql[4] = value
    /\ value = I256Zero => posql = [i \in 1..4 |-> Zeros(U64Digits)]
    /\ value = wrapping_neg(I256One) => posql = [i \in 1..4 |-> U64Max]
    /\ value = I256_MAX =>
         posql = <<U64Max, U64Max, U64Max, Ones(U64Digits - 1) \o <<Base \div 2 - 1>> >>
    /\ value = I256_MIN =>
         posql = <<Zeros(U64Digits), Zeros(U64Digits), Zeros(U64Digits),
                   Zeros(U64Digits - 1) \o <<Base \div 2>> >>

C8_Witness ==
  /\ pc = "from"
  /\ value = I256_MIN
  /\ ~InRange(value)
  /\ posql[4] = Zeros(U64Digits - 1) \o <<Base \div 2>>

\* C9: in convert_scalar_to_i256 the absolute value is at most MAX_SIGNED,
\* the magnitude composed from its limbs is a non-negative i256 (top limb
\* below 2^63), and the wrapping negation is the true negation: magnitude
\* plus result is 0, the result is not i256::MIN, and it equals the
\* magnitude only when that is 0.
C9_NoOverflow ==
  S2ICalled =>
    /\ ULeq(s2i.abs_scalar, MAX_SIGNED(S))
    /\ s2i.limbs[4][U64Digits] < Base \div 2
    /\ ~is_negative(s2i.abs_i256)
    /\ s2i.abs_i256 = s2i.abs_scalar
    /\ s2i.is_negative =>
         /\ WrappingAdd(s2i.ret, s2i.abs_i256, 0) = I256Zero
         /\ is_negative(s2i.ret)
         /\ s2i.ret # I256_MIN
         /\ s2i.ret # s2i.abs_i256

C9_Witness ==
  /\ pc = "scalar_to_i256"
  /\ S = "DoryScalar"
  /\ s2i.is_negative
  /\ s2i.abs_scalar = MAX_SIGNED(S)

\* C10: for every V that passes the range check, negating a negative V does
\* not overflow, and the absolute value whose limbs go to the field's limb
\* import satisfies 0 <= abs <= MAX_SIGNED < p.
C10_LimbImportPrecondition ==
  I2SCalled /\ InRange(value) =>
    /\ i2s.outcome = "returned"
    /\ i2s.abs_value # None
    /\ ~is_negative(i2s.abs_value[1])
    /\ is_negative(value) => WrappingAdd(i2s.abs_value[1], value, 0) = I256Zero
    /\ ~is_negative(value) => i2s.abs_value[1] = value
    /\ i2s.limbs[1] \o i2s.limbs[2] \o i2s.limbs[3] \o i2s.limbs[4] = i2s.abs_value[1]
    /\ ULeq(i2s.abs_value[1], MAX_SIGNED(S))
    /\ ULess(MAX_SIGNED(S), Order(S))

C10_Witness ==
  /\ pc = "i256_to_scalar"
  /\ build = "debug"
  /\ value = MIN_SUPPORTED_I256
  /\ i2s.abs_value = Some(MAX_SUPPORTED_I256)

====
